---- MODULE Spec2Model ----
(***************************************************************************)
(* The settings store (app/core/store.py), the settings model              *)
(* (app/core/config.py) and the admin mutation protocol                    *)
(* (app/api/routes/admin.py) of the ticketing tool.                        *)
(*                                                                         *)
(* Text is modelled as a sequence of atoms.  An atom is either one of the  *)
(* punctuation characters named below or a "word": a run of characters     *)
(* that holds none of them.  A key is a word.                              *)
(***************************************************************************)
EXTENDS Integers, Sequences, FiniteSets, TLC

SQ == "'"
DQ == "\""
SP == " "
NL == "\n"
EQ == "="
HASH == "#"
LBR == "["
RBR == "]"
COMMA == ","
DOT == "."

Whitespace == {SP, NL}

(***************************************************************************)
(* Python str methods, on sequences of atoms.                              *)
(***************************************************************************)
RECURSIVE lstrip(_)
lstrip(s) ==
    IF s # <<>> /\ Head(s) \in Whitespace THEN lstrip(Tail(s)) ELSE s

RECURSIVE rstrip(_)
rstrip(s) ==
    IF s # <<>> /\ s[Len(s)] \in Whitespace
    THEN rstrip(SubSeq(s, 1, Len(s) - 1))
    ELSE s

strip(s) == rstrip(lstrip(s))

\* str.find: the first index of atom c in s, 0 when there is none.
RECURSIVE find(_, _, _)
find(s, c, i) ==
    IF i > Len(s) THEN 0
    ELSE IF s[i] = c THEN i
    ELSE find(s, c, i + 1)

\* str.splitlines: no empty last line after a trailing line break.
RECURSIVE splitlines(_)
splitlines(s) ==
    IF s = <<>> THEN <<>>
    ELSE LET i == find(s, NL, 1) IN
         IF i = 0 THEN <<s>>
         ELSE <<SubSeq(s, 1, i - 1)>> \o splitlines(SubSeq(s, i + 1, Len(s)))

\* sep.join(lines)
RECURSIVE join(_, _)
join(sep, lines) ==
    IF lines = <<>> THEN <<>>
    ELSE IF Len(lines) = 1 THEN lines[1]
    ELSE lines[1] \o <<sep>> \o join(sep, Tail(lines))

(***************************************************************************)
(* Ordered dictionaries (Python dict): a sequence of <<key, value>> pairs  *)
(* with distinct keys, in insertion order.                                 *)
(***************************************************************************)
Range(s) == {s[i] : i \in 1..Len(s)}

DictKeys(d) == {d[i][1] : i \in 1..Len(d)}

DictGet(d, k) == d[CHOOSE i \in 1..Len(d) : d[i][1] = k][2]

\* d[k] = v: in place when k is there, appended otherwise.
DictSet(d, k, v) ==
    IF k \in DictKeys(d)
    THEN [i \in 1..Len(d) |-> IF d[i][1] = k THEN <<k, v>> ELSE d[i]]
    ELSE Append(d, <<k, v>>)

\* The dictionary as a function of its keys.
DictMap(d) == [k \in DictKeys(d) |-> DictGet(d, k)]

(***************************************************************************)
(* Values of a request body (JSON) and validated values (Python objects).  *)
(* One record shape for all: t is the type tag, s the text of a string     *)
(* (or the word of an enum member, or the words of a list of strings),     *)
(* n the number of an int.                                                 *)
(***************************************************************************)
StrV(s) == [t |-> "str", s |-> s, n |-> 0]
IntV(n) == [t |-> "int", s |-> <<>>, n |-> n]
ListV(l) == [t |-> "list", s |-> l, n |-> 0]
EnumV(m) == [t |-> "enum", s |-> <<m>>, n |-> 0]

Digits == <<"0", "1", "2", "3", "4", "5", "6", "7", "8", "9">>
DigitSet == {Digits[i] : i \in 1..10}
DigitVal(c) == (CHOOSE i \in 1..10 : Digits[i] = c) - 1

\* str(n) of an int n >= 0: its decimal digits.
RECURSIVE IntStr(_)
IntStr(n) ==
    IF n < 10 THEN <<Digits[n + 1]>>
    ELSE IntStr(n \div 10) \o <<Digits[(n % 10) + 1]>>

\* The int a string of digits denotes.
RECURSIVE DigitsInt(_)
DigitsInt(s) ==
    IF s = <<>> THEN 0
    ELSE 10 * DigitsInt(SubSeq(s, 1, Len(s) - 1)) + DigitVal(s[Len(s)])

\* repr of a list of strings: ['a', 'b']
RECURSIVE ListRepr(_)
ListRepr(l) ==
    IF l = <<>> THEN <<>>
    ELSE <<SQ, Head(l), SQ>>
         \o (IF Len(l) > 1 THEN <<COMMA, SP>> ELSE <<>>)
         \o ListRepr(Tail(l))

\* Python str(v).  LogLevel mixes str into Enum, and Enum.__str__ gives
\* "LogLevel.<NAME>", not the member's value.
PyStr(v) ==
    CASE v.t = "str" -> v.s
      [] v.t = "int" -> IntStr(v.n)
      [] v.t = "list" -> <<LBR>> \o ListRepr(v.s) \o <<RBR>>
      [] v.t = "enum" -> <<"LogLevel", DOT>> \o v.s

(***************************************************************************)
(* app/core/store.py                                                       *)
(***************************************************************************)
strip_quotes(value) ==
    IF Len(value) >= 2
       /\ \/ (Head(value) = DQ /\ value[Len(value)] = DQ)
          \/ (Head(value) = SQ /\ value[Len(value)] = SQ)
    THEN SubSeq(value, 2, Len(value) - 1)
    ELSE value

\* The key a stripped run of atoms before "=" is: a word, or the empty key.
\* (No text of the model puts several atoms before an "=".)
LineKey(ks) ==
    CASE Len(ks) = 0 -> ""
      [] Len(ks) = 1 -> ks[1]

\* One turn of the loop of EnvStore.read_all, on one line of the file.
EnvStore_read_line(vals, raw) ==
    LET line == strip(raw)
        i == find(line, EQ, 1)
    IN IF line = <<>> \/ Head(line) = HASH THEN vals
       ELSE IF i = 0 THEN vals
       ELSE DictSet(vals,
                    LineKey(strip(SubSeq(line, 1, i - 1))),
                    strip_quotes(strip(SubSeq(line, i + 1, Len(line)))))

RECURSIVE EnvStore_read_lines(_, _)
EnvStore_read_lines(vals, lines) ==
    IF lines = <<>> THEN vals
    ELSE EnvStore_read_lines(EnvStore_read_line(vals, Head(lines)), Tail(lines))

\* A file is [exists, text].  EnvStore.read_all: the ordered dict of its lines.
EnvStore_read_all(file) ==
    IF ~file.exists THEN <<>>
    ELSE EnvStore_read_lines(<<>>, splitlines(file.text))

\* current[k] = str(v) for every pair of updates, in order.
RECURSIVE DictUpdate(_, _)
DictUpdate(current, updates) ==
    IF updates = <<>> THEN current
    ELSE DictUpdate(DictSet(current, Head(updates)[1], PyStr(Head(updates)[2])),
                    Tail(updates))

EnvStore_line(kv) == <<kv[1], EQ>> \o kv[2]

\* EnvStore.write_many up to its loop: the dict read from the file with the
\* updates merged in.
EnvStore_current(file, updates) ==
    DictUpdate(EnvStore_read_all(file), updates)

\* EnvStore.write_many from its loop on: the whole file rewritten from the
\* dict.
EnvStore_write_text(current) ==
    LET lines == [i \in 1..Len(current) |-> EnvStore_line(current[i])]
    IN [exists |-> TRUE, text |-> join(NL, lines)]

\* EnvStore.write_many: read, merge, rewrite the whole file.
EnvStore_write_many(file, updates) ==
    EnvStore_write_text(EnvStore_current(file, updates))

\* A row of ConfigEntry, without its key.
ConfigEntry(value, now) ==
    [value |-> value, value_type |-> "str", description |-> "None",
     is_immutable |-> FALSE, created_at |-> now, updated_at |-> now]

\* A database is [configentry, legacysetting, has_setting, setting]: the rows
\* of its tables by key; has_setting says that an old table "setting" exists
\* (create_all makes the other two).
RowsOf(d) == IF d.has_setting THEN d.setting ELSE d.legacysetting

\* _ensure_migrations without its test of has_entries: the legacy rows are
\* copied by every construction.
DBStore_migrate_always(d, now) ==
    LET rows == RowsOf(d)
    IN [d EXCEPT !.configentry =
          [k \in DOMAIN @ \cup DOMAIN rows |->
              IF k \in DOMAIN rows THEN ConfigEntry(PyStr(StrV(rows[k])), now)
              ELSE @[k]]]

\* A migration that reads the table "legacysetting" only.
DBStore_migrate_legacysetting(d, now) ==
    LET has_entries == DOMAIN d.configentry # {}
        rows == d.legacysetting
    IN IF ~has_entries
       THEN [d EXCEPT !.configentry =
                [k \in DOMAIN rows |-> ConfigEntry(PyStr(StrV(rows[k])), now)]]
       ELSE d

\* DBStore._ensure_migrations, its copy of the legacy rows.
DBStore_ensure_migrations(d, now) ==
    LET has_entries == DOMAIN d.configentry # {}
        rows == RowsOf(d)
    IN IF ~has_entries
       THEN [d EXCEPT !.configentry =
                [k \in DOMAIN rows |-> ConfigEntry(PyStr(StrV(rows[k])), now)]]
       ELSE d

\* DBStore.__init__
DBStore_init(d, now) == DBStore_ensure_migrations(d, now)

DBStore_read_all(d) ==
    [k \in DOMAIN d.configentry |-> strip_quotes(d.configentry[k].value)]

\* A turn that does not look at is_immutable.
DBStore_write_one_unflagged(rows, k, v, now) ==
    IF k \in DOMAIN rows
    THEN [rows EXCEPT ![k].value = PyStr(v), ![k].updated_at = now]
    ELSE [j \in DOMAIN rows \cup {k} |->
            IF j = k THEN ConfigEntry(PyStr(v), now) ELSE rows[j]]

\* A turn that replaces an existing row by a fresh one.
DBStore_write_one_fresh(rows, k, v, now) ==
    IF k \in DOMAIN rows /\ rows[k].is_immutable THEN rows
    ELSE [j \in DOMAIN rows \cup {k} |->
            IF j = k THEN ConfigEntry(PyStr(v), now) ELSE rows[j]]

\* One turn of the loop of DBStore.write_many.
DBStore_write_one(rows, k, v, now) ==
    IF k \in DOMAIN rows
    THEN IF rows[k].is_immutable THEN rows
         ELSE [rows EXCEPT ![k].value = PyStr(v), ![k].updated_at = now]
    ELSE [j \in DOMAIN rows \cup {k} |->
            IF j = k THEN ConfigEntry(PyStr(v), now) ELSE rows[j]]

RECURSIVE DBStore_write_rows(_, _, _)
DBStore_write_rows(rows, updates, now) ==
    IF updates = <<>> THEN rows
    ELSE DBStore_write_rows(
            DBStore_write_one(rows, Head(updates)[1], Head(updates)[2], now),
            Tail(updates), now)

\* DBStore.write_many: the loop, then the commit.
DBStore_write_many(d, updates, now) ==
    [d EXCEPT !.configentry = DBStore_write_rows(@, updates, now)]

\* The rows the session of write_many holds after the first n turns of its
\* loop, before any commit.
DBStore_session(d, updates, now, n) ==
    DBStore_write_rows(d.configentry, SubSeq(updates, 1, n), now)

\* A write_many that commits at the end of every turn of its loop.
DBStore_write_many_each(d, updates, now, at) ==
    [d EXCEPT !.configentry = DBStore_session(d, updates, now, at - 1)]

\* DBStore.write_many when something raises in turn at of its loop, or in
\* the commit (at = Len(updates) + 1): the with block closes the session,
\* and what the session held without commit is dropped.
DBStore_write_many_raising(d, updates, now, at) ==
    LET held == DBStore_session(d, updates, now, at - 1)
        committed == d.configentry
    IN [d EXCEPT !.configentry = committed]

DBStore_is_empty(d) == DOMAIN d.configentry = {}

DefaultDb == "settings.db"

\* get_store: which store os.environ selects, [kind, loc].
get_store(environ) ==
    LET use_db == IF "SETTINGS_USE_DB" \in DOMAIN environ
                  THEN environ["SETTINGS_USE_DB"] \in {<<"1">>, <<"true">>, <<"True">>}
                  ELSE TRUE
    IN IF use_db
       THEN [kind |-> "db",
             loc |-> IF "SETTINGS_DB_PATH" \in DOMAIN environ
                     THEN environ["SETTINGS_DB_PATH"][1]
                     ELSE DefaultDb]
       ELSE [kind |-> "env", loc |-> ".env"]

\* The persistent world is [file, db]: the .env file and the databases by
\* location.  Constructing a table store runs its migration.
Construct(st, w, now) ==
    IF st.kind = "db"
    THEN [w EXCEPT !.db[st.loc] = DBStore_init(@, now)]
    ELSE w

\* store.read_all() of a constructed store, as a function of the keys.
read_all(st, w) ==
    IF st.kind = "db" THEN DBStore_read_all(w.db[st.loc])
    ELSE DictMap(EnvStore_read_all(w.file))

\* store.write_many(updates) of a constructed store.
write_many(st, w, updates, now) ==
    IF st.kind = "db"
    THEN [w EXCEPT !.db[st.loc] = DBStore_write_many(@, updates, now)]
    ELSE [w EXCEPT !.file = EnvStore_write_many(@, updates)]

(***************************************************************************)
(* app/core/config.py                                                      *)
(***************************************************************************)
LogLevel == {"DEBUG", "INFO", "WARNING", "ERROR", "CRITICAL"}

\* The fields of Settings the model keeps, in declaration order.
FieldNames ==
    <<"log_level", "host", "port", "admin_jwt_secret", "user_jwt_secret",
      "immutable_keys">>
FieldSet == {FieldNames[i] : i \in 1..Len(FieldNames)}

Alias(f) ==
    CASE f = "log_level" -> "LOG_LEVEL"
      [] f = "host" -> "HOST"
      [] f = "port" -> "PORT"
      [] f = "admin_jwt_secret" -> "ADMIN_JWT_SECRET"
      [] f = "user_jwt_secret" -> "USER_JWT_SECRET"
      [] f = "immutable_keys" -> "IMMUTABLE_KEYS"

Annotation(f) ==
    CASE f = "log_level" -> "enum"
      [] f = "host" -> "str"
      [] f = "port" -> "int"
      [] f = "admin_jwt_secret" -> "str"
      [] f = "user_jwt_secret" -> "str"
      [] f = "immutable_keys" -> "list"

Aliases == {Alias(f) : f \in FieldSet}

\* Settings.model_construct(): every field at its declared default.
Defaults ==
    [log_level |-> EnumV("INFO"),
     host |-> StrV(<<"0.0.0.0">>),
     port |-> IntV(8000),
     admin_jwt_secret |-> StrV(<<"admin-secret-change-me">>),
     user_jwt_secret |-> StrV(<<"user-secret-change-me">>),
     immutable_keys |-> ListV(<<"PATH">>)]

IsDigits(s) == s # <<>> /\ \A i \in 1..Len(s) : s[i] \in DigitSet

\* pydantic's validation of one Python value against an annotation (lax
\* mode): [ok, v].
Coerce(annotation, v) ==
    CASE annotation = "str" ->
            [ok |-> v.t = "str", v |-> v]
      [] annotation = "int" ->
            IF v.t = "int" THEN [ok |-> TRUE, v |-> v]
            ELSE IF v.t = "str" /\ IsDigits(v.s)
                 THEN [ok |-> TRUE, v |-> IntV(DigitsInt(v.s))]
                 ELSE [ok |-> FALSE, v |-> v]
      [] annotation = "enum" ->
            IF v.t = "enum" THEN [ok |-> TRUE, v |-> v]
            ELSE IF v.t = "str" /\ Len(v.s) = 1 /\ v.s[1] \in LogLevel
                 THEN [ok |-> TRUE, v |-> EnumV(v.s[1])]
                 ELSE [ok |-> FALSE, v |-> v]
      [] annotation = "list" ->
            [ok |-> v.t = "list", v |-> v]

\* json.loads of the text of a list of strings, "[" "x" , "y" "]": the
\* elements after the opening bracket, [ok, l].
RECURSIVE JsonElems(_, _)
JsonElems(t, acc) ==
    IF t = <<RBR>> THEN [ok |-> TRUE, l |-> acc]
    ELSE IF Len(t) >= 4 /\ t[1] = DQ /\ t[3] = DQ
            /\ t[2] \notin {DQ, SQ, COMMA, LBR, RBR, SP, NL}
         THEN LET rest == SubSeq(t, 4, Len(t)) IN
              IF rest = <<RBR>> THEN [ok |-> TRUE, l |-> Append(acc, t[2])]
              ELSE IF Len(rest) >= 2 /\ rest[1] = COMMA
                   THEN JsonElems(lstrip(Tail(rest)), Append(acc, t[2]))
                   ELSE [ok |-> FALSE, l |-> <<>>]
         ELSE [ok |-> FALSE, l |-> <<>>]

JsonStrList(s) ==
    IF s # <<>> /\ Head(s) = LBR THEN JsonElems(Tail(s), <<>>)
    ELSE [ok |-> FALSE, l |-> <<>>]

\* What the settings sources make of the text of one variable: a list field
\* is decoded as JSON, the others are validated as strings.
FromEnv(annotation, s) ==
    IF annotation = "list"
    THEN LET j == JsonStrList(s) IN [ok |-> j.ok, v |-> ListV(j.l)]
    ELSE Coerce(annotation, StrV(s))

\* The variables of the .env file as the dotenv source of Settings reads
\* them (Config.env_file).
DotEnvValues(file) == DictMap(EnvStore_read_all(file))

\* Settings(): os.environ first, then the .env file, then the default, by
\* alias (case_sensitive); a variable of the .env file that is no field's
\* alias is an extra input, which BaseSettings forbids.
Settings_init(environ, file) ==
    LET dotenv == DotEnvValues(file)
        has(f) == Alias(f) \in DOMAIN environ \/ Alias(f) \in DOMAIN dotenv
        text(f) == IF Alias(f) \in DOMAIN environ THEN environ[Alias(f)]
                   ELSE dotenv[Alias(f)]
        got(f) == FromEnv(Annotation(f), text(f))
    IN [ok |-> /\ DOMAIN dotenv \subseteq Aliases
               /\ \A f \in FieldSet : has(f) => got(f).ok,
        v |-> [f \in FieldSet |-> IF has(f) THEN got(f).v ELSE Defaults[f]]]

\* An initialization that falls back field by field: a field whose
\* supplied value fails validation gets its default, the others keep
\* theirs.
initialize_field_by_field(environ, file) ==
    LET dotenv == DotEnvValues(file)
        has(f) == Alias(f) \in DOMAIN environ \/ Alias(f) \in DOMAIN dotenv
        text(f) == IF Alias(f) \in DOMAIN environ THEN environ[Alias(f)]
                   ELSE dotenv[Alias(f)]
        got(f) == FromEnv(Annotation(f), text(f))
    IN [f \in FieldSet |->
          IF has(f) /\ got(f).ok THEN got(f).v ELSE Defaults[f]]

\* _initialize_settings: Settings(), or the defaults when it raises.
initialize_settings(environ, file) ==
    LET s == Settings_init(environ, file) IN
    IF s.ok THEN s.v ELSE Defaults

\* os.environ[k] = str(v) for every pair the store holds.
PushEnviron(environ, values) ==
    [k \in DOMAIN environ \cup DOMAIN values |->
        IF k \in DOMAIN values THEN values[k] ELSE environ[k]]

\* reload_settings: [w, environ, settings] after it.
reload_settings(environ, w, now) ==
    LET store == get_store(environ)
        w1 == Construct(store, w, now)
        env1 == PushEnviron(environ, read_all(store, w1))
    IN [w |-> w1, environ |-> env1,
        settings |-> initialize_settings(env1, w1.file)]

\* str.lower of a key, as far as it names a field.
lower(key) ==
    CASE key \in {"log_level", "LOG_LEVEL", "Log_Level"} -> "log_level"
      [] key \in {"host", "HOST", "Host"} -> "host"
      [] key \in {"port", "PORT", "Port"} -> "port"
      [] key \in {"admin_jwt_secret", "ADMIN_JWT_SECRET"} -> "admin_jwt_secret"
      [] key \in {"user_jwt_secret", "USER_JWT_SECRET"} -> "user_jwt_secret"
      [] key \in {"immutable_keys", "IMMUTABLE_KEYS"} -> "immutable_keys"
      [] OTHER -> "(no field)"

\* A validation that looks a key up by alias only.
validate_alias_only(key, value) ==
    LET by_alias == {f \in FieldSet : Alias(f) = key} IN
    IF by_alias = {} THEN [ok |-> TRUE, v |-> value]
    ELSE Coerce(Annotation(CHOOSE f \in by_alias : TRUE), value)

\* validate_setting_value: [ok, v]; ok = FALSE is the ValueError raised.
validate_setting_value(key, value) ==
    LET by_alias == {f \in FieldSet : Alias(f) = key}
        target_field ==
            IF by_alias # {} THEN CHOOSE f \in by_alias : TRUE
            ELSE IF lower(key) \in FieldSet THEN lower(key)
            ELSE "(none)"
    IN IF target_field = "(none)" THEN [ok |-> TRUE, v |-> value]
       ELSE Coerce(Annotation(target_field), value)

(***************************************************************************)
(* app/core/token.py and app/core/security.py                              *)
(*                                                                         *)
(* A token is [kind, secret, role, expired].  Kind "none" is a request     *)
(* with no Authorization header, "malformed" a bearer string that is no    *)
(* JWT, "jwt" a token signed with secret whose payload carries role        *)
(* ("absent" when it carries none) and whose exp has passed or not.        *)
(***************************************************************************)
NoToken ==
    [kind |-> "none", secret |-> <<>>, role |-> "absent", expired |-> FALSE]

Malformed ==
    [kind |-> "malformed", secret |-> <<>>, role |-> "absent", expired |-> FALSE]

Jwt(secret, role, expired) ==
    [kind |-> "jwt", secret |-> secret, role |-> role, expired |-> expired]

\* create_token: the payload carries the role, and the role chooses the
\* secret that signs it.
create_token(role, expired, settings) ==
    Jwt(IF role = "admin" THEN settings.admin_jwt_secret.s
        ELSE settings.user_jwt_secret.s,
        role, expired)

\* _try_decode_with_secret: jwt.decode verifies the signature first, then
\* exp.
try_decode_with_secret(token, secret) ==
    IF token.kind # "jwt" \/ token.secret # secret
    THEN [success |-> FALSE, error |-> "invalid"]
    ELSE IF token.expired THEN [success |-> FALSE, error |-> "expired"]
    ELSE [success |-> TRUE, error |-> "none"]

\* _decode_token: the admin secret first, then the user secret.  The
\* result is "payload" with the role of the payload and _verified_with,
\* "expired", or "None".
decode_token(token, settings) ==
    LET a == try_decode_with_secret(token, settings.admin_jwt_secret.s)
        u == try_decode_with_secret(token, settings.user_jwt_secret.s)
        decoded(with) ==
            [is |-> "payload", role |-> token.role, verified_with |-> with]
        failed(how) == [is |-> how, role |-> "absent", verified_with |-> "absent"]
    IN IF a.success THEN decoded("admin")
       ELSE IF a.error = "expired" THEN failed("expired")
       ELSE IF u.success THEN decoded("user")
       ELSE IF u.error = "expired" THEN failed("expired")
       ELSE failed("None")

\* HTTPBearer() refuses a request with no Authorization header itself; the
\* status of its HTTPException is that of the FastAPI installed: 403 up
\* to 0.121, 401 since.  security.py leaves auto_error at its default.
HTTPBearerStatus == {401, 403}

\* require_role(required), the dependency of every admin endpoint: 200
\* when it returns the payload, else the status of the HTTPException;
\* bearer is the status HTTPBearer gives a request without credentials.
require_role(required, token, bearer, settings) ==
    IF token.kind = "none" THEN bearer
    ELSE LET payload == decode_token(token, settings)
             role == IF payload.role # "absent" THEN payload.role
                     ELSE payload.verified_with
         IN IF payload.is = "None" THEN 401
            ELSE IF payload.is = "expired" THEN 401
            ELSE IF required = "user" /\ role \in {"user", "admin"} THEN 200
            ELSE IF required = "admin" /\ role = "admin" THEN 200
            ELSE 403

(***************************************************************************)
(* app/api/routes/admin.py                                                 *)
(*                                                                         *)
(* A payload is a sequence of <<key, value>> pairs with distinct keys.  A  *)
(* response is [status, kind, keys, body]: keys are the keys an error      *)
(* lists, body the mapping a success echoes.  The outcome of a handler is  *)
(* the response with the world, os.environ and the settings it leaves, the *)
(* steps it ran, and whether the fault it was given was met.               *)
(***************************************************************************)
NoBody == [k \in {} |-> <<>>]

PayloadKeys(payload) == {payload[i][1] : i \in 1..Len(payload)}

Response(status, kind, keys, body) ==
    [status |-> status, kind |-> kind, keys |-> keys, body |-> body]

\* A handler that raised HTTPException before persisting anything.
Rejected(resp, w, environ, settings, steps) ==
    [resp |-> resp, w |-> w, environ |-> environ, settings |-> settings,
     steps |-> steps, fault_hit |-> FALSE, restarted |-> FALSE]

\* A validation that stops at the first pair that fails.
validate_first_error(updates) ==
    LET res(i) == validate_setting_value(updates[i][1], updates[i][2])
        bad == {j \in 1..Len(updates) : ~res(j).ok}
        first == CHOOSE j \in bad : \A i \in bad : j <= i
    IN [errors |-> IF bad = {} THEN {} ELSE {updates[first][1]},
        validated |-> [i \in 1..Len(updates) |->
                          <<updates[i][1], StrV(PyStr(res(i).v))>>]]

\* _validate_and_update_settings: the keys that failed, and the validated
\* updates as strings.
validate_and_update_settings(updates) ==
    LET res(i) == validate_setting_value(updates[i][1], updates[i][2]) IN
    [errors |-> {updates[i][1] : i \in {j \in 1..Len(updates) : ~res(j).ok}},
     validated |-> [i \in 1..Len(updates) |->
                       <<updates[i][1], StrV(PyStr(res(i).v))>>]]

\* write_settings_to_env
write_settings_to_env(updates, environ, w, now) ==
    LET store == get_store(environ) IN
    write_many(store, Construct(store, w, now), updates, now)

\* A persist step that treats a failed write as it treats a failed
\* setup_logging: logged, and the reload runs all the same.
persist_swallowing(updates, restart, resp, environ, w, settings, now, fault, steps0) ==
    LET store == get_store(environ)
        w0 == Construct(store, w, now)
        w1 == write_settings_to_env(updates, environ, w, now)
        w1c == Construct(store, w1, now)
        w2 == write_settings_to_env(updates, environ, w1, now)
        wf == IF fault = "write1" THEN w0
              ELSE IF fault = "write2" THEN w1c ELSE w2
        r == reload_settings(environ, wf, now)
    IN [resp |-> resp, w |-> r.w, environ |-> r.environ,
        settings |-> r.settings,
        steps |-> steps0 \o <<"write", "write", "reload", "logging">>
                  \o (IF restart THEN <<"restart">> ELSE <<>>),
        fault_hit |-> fault # "none", restarted |-> restart]

\* A persist step whose restart does not wait for the reload: it is run
\* when the write inside update_and_reload has failed as well.
persist_restart_unguarded(updates, restart, resp, environ, w, settings, now, fault, steps0) ==
    LET store == get_store(environ)
        w0 == Construct(store, w, now)
        w1 == write_settings_to_env(updates, environ, w, now)
        w1c == Construct(store, w1, now)
        w2 == write_settings_to_env(updates, environ, w1, now)
        r == reload_settings(environ, w2, now)
        error == Response(500, "error", {}, NoBody)
    IN IF fault = "write1"
       THEN [resp |-> error, w |-> w0, environ |-> environ,
             settings |-> settings, steps |-> steps0,
             fault_hit |-> TRUE, restarted |-> FALSE]
       ELSE IF fault = "write2"
       THEN [resp |-> error, w |-> w1c, environ |-> environ,
             settings |-> settings,
             steps |-> steps0 \o <<"write">>
                       \o (IF restart THEN <<"restart">> ELSE <<>>),
             fault_hit |-> TRUE, restarted |-> restart]
       ELSE [resp |-> resp, w |-> r.w, environ |-> r.environ,
             settings |-> r.settings,
             steps |-> steps0 \o <<"write", "write", "reload", "logging">>
                       \o (IF restart THEN <<"restart">> ELSE <<>>),
             fault_hit |-> fault = "logging", restarted |-> restart]

\* A persist step that answers a failed setup_logging with 500, as it
\* answers a failed write.
persist_logging_surfaced(updates, restart, resp, environ, w, settings, now, fault, steps0) ==
    LET w1 == write_settings_to_env(updates, environ, w, now)
        w2 == write_settings_to_env(updates, environ, w1, now)
        r == reload_settings(environ, w2, now)
        error == Response(500, "error", {}, NoBody)
        failed == fault = "logging"
    IN [resp |-> IF failed THEN error ELSE resp,
        w |-> r.w, environ |-> r.environ, settings |-> r.settings,
        steps |-> steps0 \o <<"write", "write", "reload", "logging">>
                  \o (IF restart /\ ~failed THEN <<"restart">> ELSE <<>>),
        fault_hit |-> fault # "none", restarted |-> restart /\ ~failed]

\* _persist_and_reload_settings, after which the handler returns resp.  A
\* fault is the step that raises: "write1" the write of
\* write_settings_to_env, "write2" the write inside update_and_reload (the
\* transaction is not committed, the file is not rewritten), "logging"
\* setup_logging.
persist_and_reload_settings(updates, restart, resp, environ, w, settings, now, fault, steps0) ==
    LET store == get_store(environ)
        w0 == Construct(store, w, now)
        w1 == write_settings_to_env(updates, environ, w, now)
        w1c == Construct(store, w1, now)
        w2 == write_settings_to_env(updates, environ, w1, now)
        r == reload_settings(environ, w2, now)
        error == Response(500, "error", {}, NoBody)
    IN IF fault = "write1"
       THEN [resp |-> error, w |-> w0, environ |-> environ,
             settings |-> settings, steps |-> steps0,
             fault_hit |-> TRUE, restarted |-> FALSE]
       ELSE IF fault = "write2"
       THEN [resp |-> error, w |-> w1c, environ |-> environ,
             settings |-> settings, steps |-> steps0 \o <<"write">>,
             fault_hit |-> TRUE, restarted |-> FALSE]
       ELSE [resp |-> resp, w |-> r.w, environ |-> r.environ,
             settings |-> r.settings,
             steps |-> steps0 \o <<"write", "write", "reload", "logging">>
                       \o (IF restart THEN <<"restart">> ELSE <<>>),
             fault_hit |-> fault = "logging", restarted |-> restart]

\* The part the four handlers share after their pre-checks.
validate_persist(kind, payload, restart, environ, w, settings, now, fault) ==
    LET u == validate_and_update_settings(payload)
        steps == <<"precheck", "validate">>
    IN IF u.errors # {}
       THEN Rejected(Response(400, "validation_errors", u.errors, NoBody),
                     w, environ, settings, steps)
       ELSE persist_and_reload_settings(
                u.validated, restart,
                Response(200, kind, {},
                         [k \in PayloadKeys(payload) |->
                             DictGet(u.validated, k).s]),
                environ, w, settings, now, fault, steps)

immutable_keys(settings) ==
    {settings.immutable_keys.s[i] : i \in 1..Len(settings.immutable_keys.s)}

\* _read_env_file: the store's read_all, and the world after get_store.
read_env_file(environ, w, now) ==
    LET store == get_store(environ)
        w1 == Construct(store, w, now)
    IN [values |-> read_all(store, w1), w |-> w1]

\* A merge in which the store's values lie over the snapshot's.
allowed_keys_store_first(environ, w, settings, now) ==
    LET env_values == read_env_file(environ, w, now).values IN
    [k \in DOMAIN env_values \cup Aliases |->
        IF k \in DOMAIN env_values
        THEN StrV(env_values[k])
        ELSE settings[CHOOSE f \in FieldSet : Alias(f) = k]]

\* _allowed_keys: the store's values under the snapshot's, which
\* model_dump(by_alias=True) keys by alias.
allowed_keys(environ, w, settings, now) ==
    LET env_values == read_env_file(environ, w, now).values IN
    [k \in DOMAIN env_values \cup Aliases |->
        IF k \in Aliases
        THEN settings[CHOOSE f \in FieldSet : Alias(f) = k]
        ELSE StrV(env_values[k])]

\* GET /admin/settings/{key}
get_setting(key, environ, w, settings, now) ==
    LET allowed == allowed_keys(environ, w, settings, now) IN
    IF key \notin DOMAIN allowed
    THEN Response(404, "not_found", {key}, NoBody)
    ELSE Response(200, "value", {}, [k \in {key} |-> allowed[key]])

\* GET /admin/settings
get_settings(environ, w, settings, now) ==
    Response(200, "settings", {}, allowed_keys(environ, w, settings, now))

\* The outcome of a read handler: its response, and the world after its
\* get_store.
Read(resp, environ, w, settings, now) ==
    Rejected(resp, read_env_file(environ, w, now).w, environ, settings, <<>>)

\* Depends(require_role(required)): the handler runs when the dependency
\* returns, else the request ends with the dependency's HTTPException.
Depends(required, token, bearer, environ, w, settings, out) ==
    LET status == require_role(required, token, bearer, settings) IN
    IF status = 200 THEN out
    ELSE Rejected(Response(status, "auth", {}, NoBody),
                  w, environ, settings, <<>>)

put_setting(key, value, restart, environ, w, settings, now, fault) ==
    LET e == read_env_file(environ, w, now) IN
    IF key \in DOMAIN e.values
    THEN Rejected(Response(409, "conflict", {key}, NoBody),
                  e.w, environ, settings, <<"precheck">>)
    ELSE IF key \in immutable_keys(settings)
    THEN Rejected(Response(403, "immutable", {key}, NoBody),
                  e.w, environ, settings, <<"precheck">>)
    ELSE validate_persist("added", <<<<key, value>>>>, restart,
                          environ, e.w, settings, now, fault)

\* An update that does not look at the roster of immutable keys.
post_setting_unguarded(key, value, restart, environ, w, settings, now, fault) ==
    LET e == read_env_file(environ, w, now) IN
    IF key \notin DOMAIN e.values
    THEN Rejected(Response(400, "missing", {key}, NoBody),
                  e.w, environ, settings, <<"precheck">>)
    ELSE validate_persist("updated", <<<<key, value>>>>, restart,
                          environ, e.w, settings, now, fault)

post_setting(key, value, restart, environ, w, settings, now, fault) ==
    LET e == read_env_file(environ, w, now) IN
    IF key \notin DOMAIN e.values
    THEN Rejected(Response(400, "missing", {key}, NoBody),
                  e.w, environ, settings, <<"precheck">>)
    ELSE IF key \in immutable_keys(settings)
    THEN Rejected(Response(403, "immutable", {key}, NoBody),
                  e.w, environ, settings, <<"precheck">>)
    ELSE validate_persist("updated", <<<<key, value>>>>, restart,
                          environ, e.w, settings, now, fault)

\* A bulk create that writes the pairs whose keys are new before it rejects
\* the request for the keys that exist.
put_settings_bulk_partial(payload, restart, environ, w, settings, now, fault) ==
    LET e == read_env_file(environ, w, now)
        conflicts == {k \in PayloadKeys(payload) : k \in DOMAIN e.values}
        blocked == {k \in PayloadKeys(payload) : k \in immutable_keys(settings)}
        fresh == SelectSeq(payload, LAMBDA kv : kv[1] \notin conflicts)
    IN IF conflicts # {}
       THEN Rejected(Response(409, "conflicts", conflicts, NoBody),
                     write_many(get_store(environ), e.w, fresh, now),
                     environ, settings, <<"precheck">>)
       ELSE IF blocked # {}
       THEN Rejected(Response(403, "immutable", blocked, NoBody),
                     e.w, environ, settings, <<"precheck">>)
       ELSE validate_persist("added", payload, restart,
                             environ, e.w, settings, now, fault)

put_settings_bulk(payload, restart, environ, w, settings, now, fault) ==
    LET e == read_env_file(environ, w, now)
        conflicts == {k \in PayloadKeys(payload) : k \in DOMAIN e.values}
        blocked == {k \in PayloadKeys(payload) : k \in immutable_keys(settings)}
    IN IF conflicts # {}
       THEN Rejected(Response(409, "conflicts", conflicts, NoBody),
                     e.w, environ, settings, <<"precheck">>)
       ELSE IF blocked # {}
       THEN Rejected(Response(403, "immutable", blocked, NoBody),
                     e.w, environ, settings, <<"precheck">>)
       ELSE validate_persist("added", payload, restart,
                             environ, e.w, settings, now, fault)

\* A bulk update that writes the keys the store lacks along with the others.
post_settings_bulk_upsert(payload, restart, environ, w, settings, now, fault) ==
    LET e == read_env_file(environ, w, now)
        blocked == {k \in PayloadKeys(payload) : k \in immutable_keys(settings)}
    IN IF blocked # {}
       THEN Rejected(Response(403, "immutable", blocked, NoBody),
                     e.w, environ, settings, <<"precheck">>)
       ELSE validate_persist("updated", payload, restart,
                             environ, e.w, settings, now, fault)

post_settings_bulk(payload, restart, environ, w, settings, now, fault) ==
    LET e == read_env_file(environ, w, now)
        missing == {k \in PayloadKeys(payload) : k \notin DOMAIN e.values}
        blocked == {k \in PayloadKeys(payload) : k \in immutable_keys(settings)}
    IN IF missing # {}
       THEN Rejected(Response(400, "missing", missing, NoBody),
                     e.w, environ, settings, <<"precheck">>)
       ELSE IF blocked # {}
       THEN Rejected(Response(403, "immutable", blocked, NoBody),
                     e.w, environ, settings, <<"precheck">>)
       ELSE validate_persist("updated", payload, restart,
                             environ, e.w, settings, now, fault)

(***************************************************************************)
(* app/main.py                                                             *)
(***************************************************************************)
\* migrate_env_to_db(): the default .env file into the table store at the
\* default location.
migrate_env_to_db(w, now) ==
    IF ~w.file.exists THEN w
    ELSE LET values == EnvStore_read_all(w.file)
             updates == [i \in 1..Len(values) |->
                            <<values[i][1], StrV(values[i][2])>>]
             ds == [kind |-> "db", loc |-> DefaultDb]
         IN write_many(ds, Construct(ds, w, now), updates, now)

\* startup_event: [w, environ, settings] after it.
startup_event(environ, w, now) ==
    LET store == get_store(environ)
        w1 == Construct(store, w, now)
        w2 == IF store.kind = "db" /\ DBStore_is_empty(w1.db[store.loc])
              THEN migrate_env_to_db(w1, now)
              ELSE w1
    IN reload_settings(environ, w2, now)

(***************************************************************************)
(* The state machine: one server process and its persistent world.         *)
(***************************************************************************)
VARIABLES
    environ,    \* os.environ, the variables the model reads
    file,       \* the .env file, [exists, text]
    db,         \* the databases by location
    settings,   \* the module-level Settings instance
    clock,      \* datetime.utcnow(), counted in handlers that wrote
    pc,         \* "boot": imported, not started; "idle"; "done": responded
    req,        \* the request handled last, [op, payload, restart]
    resp,       \* its response
    steps,      \* the steps its handler ran
    io,         \* the fault its handler met
    nreq        \* requests handled so far

vars == <<environ, file, db, settings, clock, pc, req, resp, steps, io, nreq>>

MaxReq == 1
MaxBatch == 2

World == [file |-> file, db |-> db]

NoRows == [k \in {} |-> ConfigEntry(<<>>, 0)]
NoLegacy == [k \in {} |-> <<>>]
EmptyDb ==
    [configentry |-> NoRows, legacysetting |-> NoLegacy,
     has_setting |-> FALSE, setting |-> NoLegacy]

CustomDb == "custom.db"
DbLocs == {DefaultDb, CustomDb}

NoReq == [op |-> "none", payload |-> <<>>, restart |-> FALSE]
NoResp == Response(0, "none", {}, NoBody)

\* Request keys, in the order a payload lists them, and the values tried
\* for each.
RequestKeys ==
    <<"LOG_LEVEL", "PATH", "PORT", "SETTINGS_USE_DB", "TEST_NEW1">>

RawValues(k) ==
    CASE k = "LOG_LEVEL" -> {StrV(<<"DEBUG">>), StrV(<<"bogus">>)}
      [] k = "PATH" -> {StrV(<<"p">>)}
      [] k = "PORT" -> {StrV(<<"8", "0">>), StrV(<<"x">>)}
      [] k = "SETTINGS_USE_DB" -> {StrV(<<"0">>)}
      [] k = "TEST_NEW1" -> {StrV(<<"v1">>), StrV(<<SQ, "q", SQ>>)}

\* The payloads of at most n pairs whose keys are RequestKeys[i..], in order.
RECURSIVE Payloads(_, _)
Payloads(i, n) ==
    IF i > Len(RequestKeys) \/ n = 0 THEN {<<>>}
    ELSE Payloads(i + 1, n)
         \cup {<<<<RequestKeys[i], v>>>> \o p :
                 v \in RawValues(RequestKeys[i]), p \in Payloads(i + 1, n - 1)}

\* The bodies of the bulk requests.
BulkPayloads == Payloads(1, MaxBatch)

Faults == {"none", "write1", "write2", "logging"}

Row(value, immutable) ==
    [ConfigEntry(value, 0) EXCEPT !.is_immutable = immutable]

JsonRoster == <<LBR, DQ, "TEST_NEW1", DQ, RBR>>

NoFile == [exists |-> FALSE, text |-> <<>>]

\* PORT=90 and TEST_NEW1="a"
PlainFile ==
    [exists |-> TRUE,
     text |-> <<"PORT", EQ, "9", "0", NL, "TEST_NEW1", EQ, DQ, "a", DQ>>]

\* PORT = 90 in a row marked immutable, TEST_NEW1 = a, and the roster
\* IMMUTABLE_KEYS = ["TEST_NEW1"].
PlainTable ==
    [k \in {"IMMUTABLE_KEYS", "PORT", "TEST_NEW1"} |->
        CASE k = "IMMUTABLE_KEYS" -> Row(JsonRoster, FALSE)
          [] k = "PORT" -> Row(<<"9", "0">>, TRUE)
          [] k = "TEST_NEW1" -> Row(<<"a">>, FALSE)]

ProcessEnviron == [k \in {"PATH"} |-> <<"/usr/bin">>]

Databases(loc, table) ==
    [l \in DbLocs |->
        IF l = loc THEN [EmptyDb EXCEPT !.configentry = table] ELSE EmptyDb]

\* The worlds a process starts in, [environ, file, db]: the table store at
\* its default place, empty and with no .env file, or holding rows; the
\* table store at a configured place, empty, beside a .env file; and the
\* file store with no file yet.
InitWorlds ==
    {[environ |-> ProcessEnviron, file |-> NoFile,
      db |-> Databases(DefaultDb, NoRows)],
     [environ |-> ProcessEnviron, file |-> NoFile,
      db |-> Databases(DefaultDb, PlainTable)],
     [environ |-> [k \in {"PATH", "SETTINGS_DB_PATH"} |->
                     IF k = "PATH" THEN <<"/usr/bin">> ELSE <<CustomDb>>],
      file |-> PlainFile,
      db |-> Databases(CustomDb, NoRows)],
     [environ |-> [k \in {"PATH", "SETTINGS_USE_DB"} |->
                     IF k = "PATH" THEN <<"/usr/bin">> ELSE <<"0">>],
      file |-> NoFile,
      db |-> Databases(DefaultDb, NoRows)]}

\* The process has imported app.core.config; the server has not started.
Init ==
    /\ \E i \in InitWorlds :
          /\ environ = i.environ
          /\ file = i.file
          /\ db = i.db
    /\ settings = initialize_settings(environ, file)
    /\ clock = 0
    /\ pc = "boot"
    /\ req = NoReq
    /\ resp = NoResp
    /\ steps = <<>>
    /\ io = "none"
    /\ nreq = 0

Startup ==
    /\ pc = "boot"
    /\ LET r == startup_event(environ, World, clock + 1) IN
       /\ environ' = r.environ
       /\ file' = r.w.file
       /\ db' = r.w.db
       /\ settings' = r.settings
    /\ clock' = clock + 1
    /\ pc' = "idle"
    /\ req' = NoReq
    /\ resp' = NoResp
    /\ steps' = <<>>
    /\ io' = "none"
    /\ UNCHANGED nreq

\* The server takes a request.
Ready == pc = "idle" /\ nreq < MaxReq

\* What a handler's outcome leaves.  os.execv starts the program anew: the
\* response is never sent, and app.core.config is imported again.
Handled(r, out, fault) ==
    /\ environ' = out.environ
    /\ file' = out.w.file
    /\ db' = out.w.db
    /\ settings' = IF out.restarted
                   THEN initialize_settings(out.environ, out.w.file)
                   ELSE out.settings
    /\ clock' = IF out.w = World THEN clock ELSE clock + 1
    /\ pc' = IF out.restarted THEN "boot" ELSE "done"
    /\ req' = r
    /\ resp' = IF out.restarted THEN NoResp ELSE out.resp
    /\ steps' = out.steps
    /\ io' = fault
    /\ nreq' = nreq + 1

\* The handler met the fault it was given; a handler that does not reach
\* the faulty step runs as with no fault.
Met(out, fault) == fault = "none" \/ out.fault_hit

Request(op, payload, restart) ==
    [op |-> op, payload |-> payload, restart |-> restart]

PutSetting ==
    /\ Ready
    /\ \E i \in 1..Len(RequestKeys), restart \in BOOLEAN :
        \E value \in RawValues(RequestKeys[i]), fault \in Faults :
          LET out == put_setting(RequestKeys[i], value, restart, environ, World, settings, clock + 1, fault)
          IN /\ Met(out, fault)
             /\ Handled(Request("put_setting", <<<<RequestKeys[i], value>>>>, restart), out, fault)

PostSetting ==
    /\ Ready
    /\ \E i \in 1..Len(RequestKeys), restart \in BOOLEAN :
        \E value \in RawValues(RequestKeys[i]), fault \in Faults :
          LET out == post_setting(RequestKeys[i], value, restart, environ, World, settings, clock + 1, fault)
          IN /\ Met(out, fault)
             /\ Handled(Request("post_setting", <<<<RequestKeys[i], value>>>>, restart), out, fault)

PutSettingsBulk ==
    /\ Ready
    /\ \E payload \in BulkPayloads, restart \in BOOLEAN, fault \in Faults :
          LET out == put_settings_bulk(payload, restart, environ, World, settings, clock + 1, fault)
          IN /\ Met(out, fault)
             /\ Handled(Request("put_settings_bulk", payload, restart), out, fault)

PostSettingsBulk ==
    /\ Ready
    /\ \E payload \in BulkPayloads, restart \in BOOLEAN, fault \in Faults :
          LET out == post_settings_bulk(payload, restart, environ, World, settings, clock + 1, fault)
          IN /\ Met(out, fault)
             /\ Handled(Request("post_settings_bulk", payload, restart), out, fault)

\* The response reaches the client; the server waits for the next request.
Respond ==
    /\ pc = "done"
    /\ pc' = "idle"
    /\ req' = NoReq
    /\ resp' = NoResp
    /\ steps' = <<>>
    /\ io' = "none"
    /\ UNCHANGED <<environ, file, db, settings, clock, nreq>>

Next ==
    \/ Startup
    \/ PutSetting
    \/ PostSetting
    \/ PutSettingsBulk
    \/ PostSettingsBulk
    \/ Respond

Spec == Init /\ [][Next]_vars

(***************************************************************************)
(* The stores used directly: a caller constructs EnvStore() or DBStore()   *)
(* and calls write_many, then read_all.                                    *)
(***************************************************************************)
StoreKeys == <<"PATH", "PORT", "TEST_NEW1">>

StoreValues(k) ==
    CASE k = "PATH" -> {StrV(<<"p">>)}
      [] k = "PORT" -> {IntV(80), StrV(<<"9", "0">>)}
      [] k = "TEST_NEW1" ->
            {StrV(<<"v1">>), StrV(<<SQ, "q", SQ>>), StrV(<<SP, "v1">>)}

\* The batches of at most n pairs whose keys are StoreKeys[i..], in order.
RECURSIVE Batches(_, _)
Batches(i, n) ==
    IF i > Len(StoreKeys) \/ n = 0 THEN {<<>>}
    ELSE Batches(i + 1, n)
         \cup {<<<<StoreKeys[i], v>>>> \o p :
                 v \in StoreValues(StoreKeys[i]), p \in Batches(i + 1, n - 1)}

StoreBatches == Batches(1, MaxBatch)

\* PATH=/bin
PathFile == [exists |-> TRUE, text |-> <<"PATH", EQ, "/bin">>]

EnvStoreOf == [kind |-> "env", loc |-> ".env"]
DBStoreOf == [kind |-> "db", loc |-> DefaultDb]

\* The rows of a legacy table: PORT = 70 and TEST_NEW1 = 'o'.
LegacyTable ==
    [k \in {"PORT", "TEST_NEW1"} |->
        IF k = "PORT" THEN <<"7", "0">> ELSE <<SQ, "o", SQ>>]

\* The richer table an earlier construction filled from the legacy rows.
MigratedTable == DBStore_init([EmptyDb EXCEPT !.legacysetting = LegacyTable], 0).configentry

\* A database at the default place whose legacy rows lie in the table
\* "setting" (old) or in "legacysetting".
LegacyDatabases(table, old) ==
    [l \in DbLocs |->
        IF l = DefaultDb
        THEN [configentry |-> table,
              legacysetting |-> IF old THEN NoLegacy ELSE LegacyTable,
              has_setting |-> old,
              setting |-> IF old THEN LegacyTable ELSE NoLegacy]
        ELSE EmptyDb]

StoreDatabases ==
    {Databases(DefaultDb, NoRows), Databases(DefaultDb, PlainTable)}
      \cup {LegacyDatabases(t, old) :
               t \in {NoRows, PlainTable, MigratedTable}, old \in BOOLEAN}

InitStore ==
    /\ environ = ProcessEnviron
    /\ file \in {NoFile, PlainFile, PathFile}
    /\ db \in StoreDatabases
    /\ settings = Defaults
    /\ clock = 0
    /\ pc = "store"
    /\ req = NoReq
    /\ resp = NoResp
    /\ steps = <<>>
    /\ io = "none"
    /\ nreq = 0

\* EnvStore().write_many(batch)
EnvStoreWriteMany ==
    /\ pc = "store" /\ nreq < MaxReq
    /\ \E batch \in StoreBatches :
          /\ file' = write_many(EnvStoreOf, World, batch, clock + 1).file
          /\ req' = Request("EnvStore.write_many", batch, FALSE)
    /\ pc' = "stored"
    /\ nreq' = nreq + 1
    /\ UNCHANGED <<environ, db, settings, clock, resp, steps, io>>

\* DBStore().write_many(batch)
DBStoreWriteMany ==
    /\ pc = "store" /\ nreq < MaxReq
    /\ \E batch \in StoreBatches :
          /\ db' = write_many(DBStoreOf, Construct(DBStoreOf, World, clock + 1),
                              batch, clock + 1).db
          /\ req' = Request("DBStore.write_many", batch, FALSE)
    /\ clock' = clock + 1
    /\ pc' = "stored"
    /\ nreq' = nreq + 1
    /\ UNCHANGED <<environ, file, settings, resp, steps, io>>

\* DBStore(): create_all, then the migration.
DBStoreConstruct ==
    /\ pc = "store" /\ nreq < MaxReq
    /\ db' = Construct(DBStoreOf, World, clock + 1).db
    /\ req' = Request("DBStore", <<>>, FALSE)
    /\ clock' = clock + 1
    /\ pc' = "stored"
    /\ nreq' = nreq + 1
    /\ UNCHANGED <<environ, file, settings, resp, steps, io>>

\* DBStore().write_many(batch) raises in turn at of its loop or in its
\* commit; steps keeps the keys whose turns had run.
DBStoreWriteManyRaises ==
    /\ pc = "store" /\ nreq < MaxReq
    /\ \E batch \in StoreBatches, at \in 1..(MaxBatch + 1) :
          /\ at <= Len(batch) + 1
          /\ db' = [Construct(DBStoreOf, World, clock + 1).db EXCEPT
                       ![DefaultDb] = DBStore_write_many_raising(@, batch, clock + 1, at)]
          /\ req' = Request("DBStore.write_many", batch, FALSE)
          /\ steps' = [i \in 1..(at - 1) |-> batch[i][1]]
    /\ io' = "raise"
    /\ clock' = clock + 1
    /\ pc' = "raised"
    /\ nreq' = nreq + 1
    /\ UNCHANGED <<environ, file, settings, resp>>

\* The call returns, or its exception reaches the caller.
StoreReturn ==
    /\ pc \in {"stored", "raised"}
    /\ pc' = "store"
    /\ req' = NoReq
    /\ steps' = <<>>
    /\ io' = "none"
    /\ UNCHANGED <<environ, file, db, settings, clock, resp, nreq>>

NextStore ==
    \/ EnvStoreWriteMany
    \/ DBStoreWriteMany
    \/ DBStoreWriteManyRaises
    \/ DBStoreConstruct
    \/ StoreReturn

SpecStore == InitStore /\ [][NextStore]_vars

(***************************************************************************)
(* The server as its clients reach it: every endpoint of the admin router  *)
(* behind its dependency, the read endpoints among them.                   *)
(***************************************************************************)
\* The tokens a client sends: none, a string that is no JWT, a token signed
\* with a secret the server does not know, the tokens create_token mints
\* for each role, expired or not, and tokens signed with either secret of
\* the server whose payload claims the other role or no role.
Tokens ==
    {NoToken, Malformed, Jwt(<<"forged">>, "admin", FALSE)}
      \cup {create_token(role, expired, Defaults) :
               role \in {"admin", "user"}, expired \in BOOLEAN}
      \cup {Jwt(Defaults.user_jwt_secret.s, "admin", FALSE),
            Jwt(Defaults.user_jwt_secret.s, "absent", FALSE),
            Jwt(Defaults.admin_jwt_secret.s, "user", FALSE),
            Jwt(Defaults.admin_jwt_secret.s, "absent", FALSE)}

\* The keys and the bodies of the requests.
ApiKeys == <<"NOPE", "PORT", "TEST_NEW1">>

ApiValue(k) == IF k = "PORT" THEN StrV(<<"8", "0">>) ELSE StrV(<<"v1">>)

ApiPayloads ==
    {<<<<"TEST_NEW1", ApiValue("TEST_NEW1")>>>>,
     <<<<"PORT", ApiValue("PORT")>>, <<"TEST_NEW1", ApiValue("TEST_NEW1")>>>>,
     <<<<"NOPE", ApiValue("NOPE")>>, <<"TEST_NEW1", ApiValue("TEST_NEW1")>>>>}

ApiRequest(op, payload, restart, token) ==
    [op |-> op, payload |-> payload, restart |-> restart, token |-> token]

\* GET /admin/settings
GetSettings ==
    /\ Ready
    /\ \E token \in Tokens, bearer \in HTTPBearerStatus :
          Handled(ApiRequest("get_settings", <<>>, FALSE, token),
                  Depends("user", token, bearer, environ, World, settings,
                          Read(get_settings(environ, World, settings, clock + 1),
                               environ, World, settings, clock + 1)),
                  "none")

\* GET /admin/settings/{key}
GetSetting ==
    /\ Ready
    /\ \E token \in Tokens, bearer \in HTTPBearerStatus, i \in 1..Len(ApiKeys) :
          Handled(ApiRequest("get_setting", <<<<ApiKeys[i]>>>>, FALSE, token),
                  Depends("user", token, bearer, environ, World, settings,
                          Read(get_setting(ApiKeys[i], environ, World, settings, clock + 1),
                               environ, World, settings, clock + 1)),
                  "none")

\* PUT /admin/settings/{key}
AuthPutSetting ==
    /\ Ready
    /\ \E token \in Tokens, bearer \in HTTPBearerStatus, i \in 1..Len(ApiKeys), restart \in BOOLEAN :
          Handled(ApiRequest("put_setting", <<<<ApiKeys[i], ApiValue(ApiKeys[i])>>>>, restart, token),
                  Depends("admin", token, bearer, environ, World, settings,
                          put_setting(ApiKeys[i], ApiValue(ApiKeys[i]), restart, environ, World, settings, clock + 1, "none")),
                  "none")

\* POST /admin/settings/{key}
AuthPostSetting ==
    /\ Ready
    /\ \E token \in Tokens, bearer \in HTTPBearerStatus, i \in 1..Len(ApiKeys), restart \in BOOLEAN :
          Handled(ApiRequest("post_setting", <<<<ApiKeys[i], ApiValue(ApiKeys[i])>>>>, restart, token),
                  Depends("admin", token, bearer, environ, World, settings,
                          post_setting(ApiKeys[i], ApiValue(ApiKeys[i]), restart, environ, World, settings, clock + 1, "none")),
                  "none")

\* PUT /admin/settings
AuthPutSettingsBulk ==
    /\ Ready
    /\ \E token \in Tokens, bearer \in HTTPBearerStatus, payload \in ApiPayloads, restart \in BOOLEAN :
          Handled(ApiRequest("put_settings_bulk", payload, restart, token),
                  Depends("admin", token, bearer, environ, World, settings,
                          put_settings_bulk(payload, restart, environ, World, settings, clock + 1, "none")),
                  "none")

\* POST /admin/settings
AuthPostSettingsBulk ==
    /\ Ready
    /\ \E token \in Tokens, bearer \in HTTPBearerStatus, payload \in ApiPayloads, restart \in BOOLEAN :
          Handled(ApiRequest("post_settings_bulk", payload, restart, token),
                  Depends("admin", token, bearer, environ, World, settings,
                          post_settings_bulk(payload, restart, environ, World, settings, clock + 1, "none")),
                  "none")

NextApi ==
    \/ Startup
    \/ GetSettings
    \/ GetSetting
    \/ AuthPutSetting
    \/ AuthPostSetting
    \/ AuthPutSettingsBulk
    \/ AuthPostSettingsBulk
    \/ Respond

SpecApi == Init /\ [][NextApi]_vars

(***************************************************************************)
(* validate_setting_value called directly with one key and one value.      *)
(***************************************************************************)
\* The keys tried: every alias, every field name, names in mixed case, and
\* keys that name no field.
ValidateKeys ==
    Aliases \cup FieldSet
      \cup {"Log_Level", "Host", "Port", "NOPE", "PATH", "TEST_NEW1"}

\* The values tried, as a JSON body carries them.
ValidateValues ==
    {StrV(<<"8", "0">>), StrV(<<"x">>), StrV(<<"DEBUG">>), StrV(<<>>),
     IntV(80), ListV(<<"a">>)}

InitValidate ==
    /\ environ = ProcessEnviron
    /\ file = NoFile
    /\ db = Databases(DefaultDb, NoRows)
    /\ settings = Defaults
    /\ clock = 0
    /\ pc = "call"
    /\ \E k \in ValidateKeys, v \in ValidateValues :
          req = Request("validate_setting_value", <<<<k, v>>>>, FALSE)
    /\ resp = NoResp
    /\ steps = <<>>
    /\ io = "none"
    /\ nreq = 0

\* validate_setting_value(key, value) returns or raises ValueError.
ValidateSettingValue ==
    /\ pc = "call"
    /\ LET r == validate_setting_value(req.payload[1][1], req.payload[1][2]) IN
       /\ resp' = r
       /\ io' = IF r.ok THEN "none" ELSE "ValueError"
    /\ pc' = "returned"
    /\ UNCHANGED <<environ, file, db, settings, clock, req, steps, nreq>>

SpecValidate == InitValidate /\ [][ValidateSettingValue]_vars

(***************************************************************************)
(* Two workers of one started server.  The handlers are plain functions,   *)
(* which the framework runs in a thread pool, and EnvStore.write_many      *)
(* reads the file and later rewrites it; a worker may run between another  *)
(* worker's read of the store and its write.  Here pc, req, resp and steps *)
(* are functions of the worker: steps[t] is the dict worker t holds.       *)
(***************************************************************************)
Workers == {1, 2}

\* The bodies of the requests and the batches of the writers.
RacePayloads ==
    {<<<<"PORT", StrV(<<"8", "0">>)>>>>,
     <<<<"TEST_NEW1", StrV(<<"v1">>)>>>>,
     <<<<"TEST_NEW1", StrV(<<"v2">>)>>>>,
     <<<<"TEST_NEW1", StrV(<<DQ, SQ, "a", SQ, DQ>>)>>>>,
     <<<<"TEST_NEW1", StrV(<<DQ, SQ, DQ, "a", DQ, SQ, DQ>>)>>>>}

\* Both workers idle in a server that has started.
InitRace ==
    /\ \E i \in InitWorlds :
          LET r == startup_event(i.environ, [file |-> i.file, db |-> i.db], 1) IN
          /\ environ = r.environ
          /\ file = r.w.file
          /\ db = r.w.db
          /\ settings = r.settings
    /\ clock = 1
    /\ pc = [t \in Workers |-> "idle"]
    /\ req = [t \in Workers |-> NoReq]
    /\ resp = [t \in Workers |-> NoResp]
    /\ steps = [t \in Workers |-> <<>>]
    /\ io = "none"
    /\ nreq = 0

\* A create, single or bulk, up to the end of its pre-checks: it raises
\* its HTTPException, or goes on to validate and persist.
CreatePrecheck ==
    \E t \in Workers, payload \in RacePayloads, op \in {"put_setting", "put_settings_bulk"} :
       LET out == IF op = "put_setting"
                  THEN put_setting(payload[1][1], payload[1][2], FALSE, environ, World, settings, clock + 1, "none")
                  ELSE put_settings_bulk(payload, FALSE, environ, World, settings, clock + 1, "none")
           passed == "validate" \in Range(out.steps)
           w1 == read_env_file(environ, World, clock + 1).w
       IN /\ pc[t] = "idle"
          /\ file' = w1.file
          /\ db' = w1.db
          /\ clock' = IF w1 = World THEN clock ELSE clock + 1
          /\ pc' = [pc EXCEPT ![t] = IF passed THEN "checked" ELSE "done"]
          /\ req' = [req EXCEPT ![t] = Request(op, payload, FALSE)]
          /\ resp' = [resp EXCEPT ![t] = IF passed THEN NoResp ELSE out.resp]
          /\ nreq' = nreq + 1
          /\ UNCHANGED <<environ, settings, steps, io>>

\* The rest of the create: _validate_and_update_settings and
\* _persist_and_reload_settings, then the response.
CreatePersist ==
    \E t \in Workers :
       LET out == validate_persist("added", req[t].payload, FALSE, environ, World, settings, clock + 1, "none")
       IN /\ pc[t] = "checked"
          /\ environ' = out.environ
          /\ file' = out.w.file
          /\ db' = out.w.db
          /\ settings' = out.settings
          /\ clock' = clock + 1
          /\ pc' = [pc EXCEPT ![t] = "done"]
          /\ resp' = [resp EXCEPT ![t] = out.resp]
          /\ UNCHANGED <<req, steps, io, nreq>>

\* EnvStore().write_many(batch) up to its loop.
EnvStoreRead ==
    \E t \in Workers, batch \in RacePayloads :
       /\ pc[t] = "idle"
       /\ steps' = [steps EXCEPT ![t] = EnvStore_current(file, batch)]
       /\ pc' = [pc EXCEPT ![t] = "read"]
       /\ req' = [req EXCEPT ![t] = Request("EnvStore.write_many", batch, FALSE)]
       /\ nreq' = nreq + 1
       /\ UNCHANGED <<environ, file, db, settings, clock, resp, io>>

\* EnvStore().write_many(batch) from its loop on: path.write_text.
EnvStoreWrite ==
    \E t \in Workers :
       /\ pc[t] = "read"
       /\ file' = EnvStore_write_text(steps[t])
       /\ pc' = [pc EXCEPT ![t] = "written"]
       /\ UNCHANGED <<environ, db, settings, clock, req, resp, steps, io, nreq>>

NextRace ==
    \/ CreatePrecheck
    \/ CreatePersist
    \/ EnvStoreRead
    \/ EnvStoreWrite

SpecRace == InitRace /\ [][NextRace]_vars

(***************************************************************************)
(* What the properties read off a state.                                   *)
(***************************************************************************)
\* The store a request arriving now is served from, and what its read_all
\* returns.
View(e, f, d, c) ==
    read_all(get_store(e), Construct(get_store(e), [file |-> f, db |-> d], c + 1))
StoreView == View(environ, file, db, clock)
StoreViewAfter == View(environ', file', db', clock')

CreateOps == {"put_setting", "put_settings_bulk"}
UpdateOps == {"post_setting", "post_settings_bulk"}
BulkOps == {"put_settings_bulk", "post_settings_bulk"}

\* The step is a handler running on a request.
Handles == pc = "idle" /\ nreq' = nreq + 1

\* The kinds of the responses the pre-checks give.
PrecheckKinds == {"conflict", "conflicts", "missing", "immutable"}

(***************************************************************************)
(* Properties.                                                             *)
(***************************************************************************)
\* C1: a bulk create or bulk update that its pre-check rejects (a key that
\* exists, a key that is missing, an immutable key) leaves the store, as
\* read_all returns it and as it lies on disk, and the live settings
\* snapshot exactly as they were: no pair of the batch is written.
C1_BulkAtomicity ==
    [][(Handles /\ req'.op \in BulkOps /\ resp'.kind \in PrecheckKinds)
         => /\ StoreViewAfter = StoreView
            /\ file' = file
            /\ db' = db
            /\ settings' = settings
            /\ environ' = environ]_vars

\* C1: a bulk create of two pairs is rejected for one key that exists while
\* the other key is new.
C1_Witness ==
    /\ pc = "done"
    /\ req.op = "put_settings_bulk"
    /\ Len(req.payload) = 2
    /\ resp.status = 409
    /\ Cardinality(resp.keys) = 1

\* The keys of the request the step handles, and those of them the store
\* holds, lacks, and the roster of the live snapshot names.
KeysAsked == PayloadKeys(req'.payload)
Existing == KeysAsked \cap DOMAIN StoreView
Missing == KeysAsked \ DOMAIN StoreView
Blocked == KeysAsked \cap immutable_keys(settings)

\* C2: a create, single or bulk, that names a key the store holds is
\* rejected with 409, the response lists every such key and the store is
\* left alone; and a create that succeeded leaves all of its keys in the
\* store the next request reads, so that its repeat is rejected with all of
\* them listed.
C2_CreateConflict ==
    [][(Handles /\ req'.op \in CreateOps)
         => /\ Existing # {}
                  => /\ resp'.status = 409
                     /\ resp'.keys = Existing
                     /\ file' = file /\ db' = db
            /\ resp'.status = 200 => KeysAsked \subseteq DOMAIN StoreViewAfter]_vars

\* C3: an update, single or bulk, that names a key the store lacks is
\* rejected with 400, the response lists every such key and nothing is
\* written; whatever its outcome, an update leaves the store it was served
\* from with no key it did not have.
C3_UpdateMissing ==
    [][(Handles /\ req'.op \in UpdateOps)
         => /\ Missing # {}
                  => /\ resp'.status = 400
                     /\ resp'.kind = "missing"
                     /\ resp'.keys = Missing
                     /\ file' = file /\ db' = db
            /\ DOMAIN View(environ, file', db', clock')
                  \subseteq DOMAIN StoreView]_vars

\* C3: a bulk update of two keys, both missing, was rejected.
C3_Witness ==
    /\ pc = "done"
    /\ req.op = "post_settings_bulk"
    /\ resp.kind = "missing"
    /\ Cardinality(resp.keys) = 2

\* C4, as stated: every create or update that names a key of the roster is
\* rejected with 403, whether or not the key is in the store, and the store
\* is left alone.
C4_AlwaysForbidden ==
    [][(Handles /\ Blocked # {})
         => /\ resp'.status = 403
            /\ file' = file /\ db' = db]_vars

\* C4, amended: every create or update that names a key of the roster is
\* rejected and leaves the store and the snapshot alone; the status is 403
\* and the response lists the roster keys named, unless the check that
\* comes first rejects the request: 409 for a create that names a key the
\* store holds, 400 for an update that names a key the store lacks.
C4_ImmutableRejected ==
    [][(Handles /\ Blocked # {})
         => /\ file' = file /\ db' = db
            /\ settings' = settings
            /\ IF req'.op \in CreateOps /\ Existing # {}
                  THEN resp'.status = 409
               ELSE IF req'.op \in UpdateOps /\ Missing # {}
                  THEN resp'.status = 400 /\ resp'.kind = "missing"
               ELSE resp'.status = 403 /\ resp'.keys = Blocked]_vars

\* C4: an update of a roster key the store holds was rejected with 403.
C4_Witness ==
    /\ pc = "done"
    /\ req.op \in UpdateOps
    /\ resp.status = 403
    /\ PayloadKeys(req.payload) \subseteq DOMAIN StoreView

\* The keys of the request whose values validate_setting_value refuses.
Invalid ==
    {req'.payload[i][1] :
        i \in {j \in 1..Len(req'.payload) :
                 ~validate_setting_value(req'.payload[j][1],
                                         req'.payload[j][2]).ok}}

\* The request passes the pre-check of its handler.
PrecheckPasses ==
    /\ Blocked = {}
    /\ IF req'.op \in CreateOps THEN Existing = {} ELSE Missing = {}

\* C6: when a request passes its pre-check and at least one of its pairs
\* fails validation, the response is one 400 validation error that names
\* every key that failed, no write was attempted, and the store, os.environ
\* and the snapshot are what they were; a validation error is never given
\* for a batch whose pairs are all valid.
C6_ValidationAggregated ==
    [][Handles
         => /\ (PrecheckPasses /\ Invalid # {})
                  => /\ resp'.status = 400
                     /\ resp'.kind = "validation_errors"
                     /\ resp'.keys = Invalid
                     /\ "write" \notin Range(steps')
                     /\ file' = file /\ db' = db
                     /\ settings' = settings
                     /\ environ' = environ
            /\ resp'.kind = "validation_errors"
                  => PrecheckPasses /\ Invalid # {}]_vars

\* C6: a bulk request of two pairs, both invalid, got its validation error.
C6_Witness ==
    /\ pc = "done"
    /\ req.op \in BulkOps
    /\ resp.kind = "validation_errors"
    /\ Cardinality(resp.keys) = 2

\* C7: when a write of the store fails during a mutation, the first or the
\* second, the request ends with 500, the reload step does not run, and the
\* snapshot (every field, the roster among them) and os.environ are what
\* they were before the request.
C7_PersistenceFailure ==
    [][(Handles /\ io' \in {"write1", "write2"})
         => /\ resp'.status = 500
            /\ pc' = "done"
            /\ "reload" \notin Range(steps')
            /\ settings' = settings
            /\ environ' = environ]_vars

\* C7: the second write of a create failed after the first had stored the
\* pair; the request ended with 500.
C7_Witness ==
    /\ pc = "done"
    /\ io = "write2"
    /\ resp.status = 500
    /\ req.op \in CreateOps
    /\ req.payload # <<>>
    /\ PayloadKeys(req.payload) \subseteq DOMAIN StoreView

\* C8: in every state reached right after a reload (the one of startup,
\* the one of a request that succeeded), every field of the snapshot whose
\* alias is a key of the store equals the stored value, coerced to the
\* field's type.
C8_SnapshotConsistency ==
    (\/ pc = "idle" /\ nreq = 0
     \/ pc = "done" /\ "reload" \in Range(steps))
      => \A f \in FieldSet :
            Alias(f) \in DOMAIN StoreView
              => LET got == FromEnv(Annotation(f), StoreView[Alias(f)])
                 IN got.ok /\ settings[f] = got.v

\* C9: after a create or update answered with 200, read_all of the store
\* returns for every key of the request the value the response echoes, and
\* for a key that is no field's alias GET /admin/settings/{key} returns
\* that value.
C9_SuccessMeansStored ==
    (pc = "done" /\ resp.status = 200)
      => \A k \in PayloadKeys(req.payload) :
            /\ k \in DOMAIN StoreView
            /\ StoreView[k] = resp.body[k]
            /\ k \notin Aliases
                  => get_setting(k, environ, World, settings, clock + 1)
                       = Response(200, "value", {},
                                  [j \in {k} |-> StrV(resp.body[k])])

\* The store of the call last made, and what a read_all of a store
\* returns in the world [f, d].
StoreCalled(op) == IF op = "EnvStore.write_many" THEN EnvStoreOf ELSE DBStoreOf
ReadBack(st, f, d, c) == read_all(st, Construct(st, [file |-> f, db |-> d], c + 1))

\* C5 (the store layer): a write_many of either store leaves every key of
\* the batch that the roster of immutable keys names as it was, stored with
\* its old value or not stored.
C5_StoreSkipsImmutable ==
    [][(pc = "store" /\ pc' = "stored")
         => LET st == StoreCalled(req'.op)
                was == ReadBack(st, file, db, clock)
                is == ReadBack(st, file', db', clock')
            IN \A k \in PayloadKeys(req'.payload) \cap immutable_keys(settings) :
                  /\ k \in DOMAIN is <=> k \in DOMAIN was
                  /\ k \in DOMAIN was => is[k] = was[k]]_vars

\* C10: after write_many(batch) on either store, read_all returns for every
\* key of the batch the string of the value written.
C10_StoreRoundTrip ==
    pc = "stored"
      => LET got == ReadBack(StoreCalled(req.op), file, db, clock) IN
         \A i \in 1..Len(req.payload) :
            /\ req.payload[i][1] \in DOMAIN got
            /\ got[req.payload[i][1]] = PyStr(req.payload[i][2])

\* C11: a construction of the table store leaves a database on which every
\* further construction changes nothing, no row of the richer table and so
\* not what read_all returns; and a construction copies legacy rows only
\* into a richer table that is empty, so a row once copied is never copied
\* again.
C11_IdempotentMigration ==
    [][(pc = "store" /\ pc' = "stored" /\ req'.op = "DBStore")
         => LET first == db'[DefaultDb]
                again == DBStore_init(first, clock' + 1)
            IN /\ again = first
               /\ DBStore_read_all(again) = DBStore_read_all(first)
               /\ DOMAIN db[DefaultDb].configentry # {} => db' = db]_vars

\* C11: the store was constructed on a database whose legacy rows an
\* earlier construction had copied.
C11_Witness ==
    /\ pc = "stored"
    /\ req.op = "DBStore"
    /\ RowsOf(db[DefaultDb]) = LegacyTable
    /\ db[DefaultDb].configentry = MigratedTable
    /\ clock > 0

\* The steps of a mutation, in the order of the handlers and of
\* _persist_and_reload_settings: the write of write_settings_to_env, then
\* the write and the reload of update_and_reload.
Pipeline ==
    <<"precheck", "validate", "write", "write", "reload", "logging", "restart">>

C13_BackendFixed ==
    [][get_store(environ') = get_store(environ)]_vars

\* The token create_token mints now for a role, and the step leaving the
\* store, os.environ and the snapshot as they were.
ValidToken(role) == create_token(role, FALSE, settings)
Untouched ==
    /\ file' = file /\ db' = db
    /\ environ' = environ
    /\ settings' = settings
ReadOps == {"get_settings", "get_setting"}

\* C14: a request with a valid user token is refused by the dependency of
\* every create and update endpoint with 401 or 403 and nothing is written,
\* and is let through by the read endpoints; a request with a valid admin
\* token is let through by every endpoint; a request with no token, with a
\* token that is malformed or signed with neither secret of the server, or
\* with an expired token is refused with 401 by every endpoint, and changes
\* nothing.
C14_CapabilityGating ==
    [][Handles
         => /\ req'.token = ValidToken("user")
                  => IF req'.op \in ReadOps
                     THEN resp'.kind # "auth" /\ resp'.status \in {200, 404}
                     ELSE /\ resp'.kind = "auth"
                          /\ resp'.status \in {401, 403}
                          /\ Untouched
            /\ req'.token = ValidToken("admin")
                  => /\ resp'.kind # "auth"
                     /\ req'.op \in ReadOps => resp'.status \in {200, 404}
            /\ (\/ req'.token.kind # "jwt"
                \/ req'.token.expired
                \/ req'.token.secret \notin {settings.admin_jwt_secret.s,
                                              settings.user_jwt_secret.s})
                  => /\ resp'.kind = "auth"
                     /\ resp'.status = 401
                     /\ Untouched]_vars

\* The merged view the read endpoints return after the step.
MergedAfter ==
    allowed_keys(environ', [file |-> file', db |-> db'], settings', clock' + 1)

\* C15: a reload leaves the store it read as it was: after the reload of
\* startup every key the store held is still held, with its value; and
\* every key the store held when a reload ran, at startup or at the end of
\* a create or update, is a key of the merged view the read endpoints
\* return afterwards.
C15_ReloadKeepsStore ==
    [][/\ (pc = "boot" /\ pc' = "idle")
            => \A k \in DOMAIN StoreView :
                  /\ k \in DOMAIN View(environ, file', db', clock')
                  /\ View(environ, file', db', clock')[k] = StoreView[k]
                  /\ k \in DOMAIN MergedAfter
       /\ (Handles /\ "reload" \in Range(steps'))
            => \A k \in DOMAIN View(environ, file', db', clock') :
                  k \in DOMAIN MergedAfter]_vars

\* The keys of the merged view before the step, and the value it has for
\* one of them: the snapshot's for the alias of a field, else the store's.
Known == DOMAIN StoreView \cup Aliases
Merged(k) ==
    IF k \in Aliases THEN settings[CHOOSE f \in FieldSet : Alias(f) = k]
    ELSE StrV(StoreView[k])

\* C16: GET /admin/settings, once its token is accepted, returns 200 and a
\* mapping whose keys are exactly the keys of the store and the aliases of
\* the schema; GET /admin/settings/{key} returns 404 exactly when the key
\* is neither, and else 200 with the one pair of that mapping; the value
\* of a key that is an alias is the snapshot's, also when the store holds
\* the key, the value of any other key is the store's.
C16_ReadView ==
    [][(Handles /\ req'.op \in ReadOps /\ resp'.kind # "auth")
         => IF req'.op = "get_settings"
            THEN /\ resp'.status = 200
                 /\ DOMAIN resp'.body = Known
                 /\ \A k \in Known : resp'.body[k] = Merged(k)
            ELSE LET key == req'.payload[1][1] IN
                 /\ resp'.status = 404 <=> key \notin Known
                 /\ key \in Known
                      => /\ resp'.status = 200
                         /\ resp'.body = [k \in {key} |-> Merged(key)]]_vars

\* C16: GET /admin/settings/PORT returned the port of the snapshot, the
\* integer, while the store holds PORT as a string.
C16_Witness ==
    /\ pc = "done"
    /\ req.op = "get_setting"
    /\ req.payload[1][1] = "PORT"
    /\ "PORT" \in DOMAIN StoreView
    /\ resp.status = 200
    /\ resp.body["PORT"] = settings.port
    /\ resp.body["PORT"] # StrV(StoreView["PORT"])

\* The rows of ConfigEntry a write_many of the table store finds, once the
\* store is constructed, and those it leaves.
RowsBefore == Construct(DBStoreOf, World, clock + 1).db[DefaultDb].configentry
RowsAfter == db'[DefaultDb].configentry

\* C17: a write_many of the table store that raises, in any turn of its
\* loop or in its commit, leaves every row as it was, so no pair of the
\* batch is persisted, not those whose turns had run either; a write_many
\* that returns has persisted the string of the new value for every key of
\* the batch whose row is not marked immutable.
C17_BatchDurability ==
    [][(pc = "store" /\ req'.op = "DBStore.write_many")
         => IF pc' = "raised"
            THEN /\ RowsAfter = RowsBefore
                 /\ ReadBack(DBStoreOf, file', db', clock')
                      = ReadBack(DBStoreOf, file, db, clock)
            ELSE \A i \in 1..Len(req'.payload) :
                    LET k == req'.payload[i][1] IN
                    (k \in DOMAIN RowsBefore => ~RowsBefore[k].is_immutable)
                      => /\ k \in DOMAIN RowsAfter
                         /\ RowsAfter[k].value = PyStr(req'.payload[i][2])]_vars

\* C17: write_many raised in its second turn, after the turn of a key the
\* table did not hold; the table does not hold it.
C17_Witness ==
    /\ pc = "raised"
    /\ Len(req.payload) = 2
    /\ Len(steps) = 1
    /\ steps[1] \notin DOMAIN db[DefaultDb].configentry

\* What the handler of request r leaves when it runs now and meets fault.
Outcome(r, fault) ==
    CASE r.op = "put_setting" ->
            put_setting(r.payload[1][1], r.payload[1][2], r.restart,
                        environ, World, settings, clock + 1, fault)
      [] r.op = "post_setting" ->
            post_setting(r.payload[1][1], r.payload[1][2], r.restart,
                         environ, World, settings, clock + 1, fault)
      [] r.op = "put_settings_bulk" ->
            put_settings_bulk(r.payload, r.restart,
                              environ, World, settings, clock + 1, fault)
      [] r.op = "post_settings_bulk" ->
            post_settings_bulk(r.payload, r.restart,
                               environ, World, settings, clock + 1, fault)

\* The table store the request is served from holds a row for k that is
\* marked immutable.
Flagged(k) ==
    /\ get_store(environ).kind = "db"
    /\ k \in DOMAIN db[get_store(environ).loc].configentry
    /\ db[get_store(environ).loc].configentry[k].is_immutable

\* C18: when setup_logging raises at the end of a create or update, the
\* request ends as it ends when setup_logging returns: the same response,
\* which is the 200 of a success (or the same restart), the same store,
\* os.environ and snapshot; the snapshot is the one the reload made of
\* the store as written, and the store the request wrote to holds every
\* key of the request, with the value the response echoes (read back by
\* read_all) unless its row is marked immutable.
C18_LoggingSwallowed ==
    [][(Handles /\ io' = "logging")
         => LET o == Outcome(req', "none") IN
            /\ o.resp.status = 200
            /\ resp' = IF o.restarted THEN NoResp ELSE o.resp
            /\ pc' = IF o.restarted THEN "boot" ELSE "done"
            /\ file' = o.w.file /\ db' = o.w.db
            /\ environ' = o.environ
            /\ settings' = IF o.restarted
                            THEN initialize_settings(o.environ, o.w.file)
                            ELSE o.settings
            /\ settings' = initialize_settings(environ', file')
            /\ "reload" \in Range(steps')
            /\ \A k \in KeysAsked :
                  /\ k \in DOMAIN View(environ, file', db', clock')
                  /\ Flagged(k)
                       \/ View(environ, file', db', clock')[k]
                            = strip_quotes(o.resp.body[k])]_vars

\* C18: setup_logging raised at the end of an update of a key the store
\* held; the response is the 200 of the update.
C18_Witness ==
    /\ pc = "done"
    /\ io = "logging"
    /\ req.op \in UpdateOps
    /\ resp.status = 200
    /\ resp.kind = "updated"
    /\ PayloadKeys(req.payload) \subseteq DOMAIN StoreView

\* C19: a write_many of the table store that returns has, for every pair
\* of the batch, left the row as it was when the row existed and was
\* marked immutable; set value to the string of the new value and
\* updated_at to the time of the call, and nothing else, when the row
\* existed and was not marked; and inserted a row with that value,
\* value_type "str", is_immutable false and both timestamps at the time of
\* the call when there was no row.  The rows of the other keys are as they
\* were.
C19_TableUpsert ==
    [][(pc = "store" /\ pc' = "stored" /\ req'.op = "DBStore.write_many")
         => /\ DOMAIN RowsAfter = DOMAIN RowsBefore \cup KeysAsked
            /\ \A k \in DOMAIN RowsBefore \ KeysAsked :
                  RowsAfter[k] = RowsBefore[k]
            /\ \A i \in 1..Len(req'.payload) :
                  LET k == req'.payload[i][1]
                      v == PyStr(req'.payload[i][2])
                  IN IF k \notin DOMAIN RowsBefore
                     THEN RowsAfter[k] =
                            [value |-> v, value_type |-> "str",
                             description |-> "None", is_immutable |-> FALSE,
                             created_at |-> clock', updated_at |-> clock']
                     ELSE IF RowsBefore[k].is_immutable
                     THEN RowsAfter[k] = RowsBefore[k]
                     ELSE RowsAfter[k] =
                            [RowsBefore[k] EXCEPT !.value = v,
                                                  !.updated_at = clock']]_vars

\* C19: a batch of PORT, whose row is marked immutable, and TEST_NEW1 was
\* written: the row of PORT has its old value, that of TEST_NEW1 the new.
C19_Witness ==
    /\ pc = "stored"
    /\ req.op = "DBStore.write_many"
    /\ Len(req.payload) = 2
    /\ req.payload[1][1] = "PORT"
    /\ req.payload[2][1] = "TEST_NEW1"
    /\ db[DefaultDb].configentry["PORT"].is_immutable
    /\ db[DefaultDb].configentry["PORT"].value # PyStr(req.payload[1][2])
    /\ db[DefaultDb].configentry["TEST_NEW1"].value = PyStr(req.payload[2][2])
    /\ db[DefaultDb].configentry["TEST_NEW1"].updated_at = clock
    /\ db[DefaultDb].configentry["TEST_NEW1"].created_at < clock

\* The fields for which os.environ or the .env file supplies a value that
\* fails the validation of the field.
BadFields(e, f) ==
    {fld \in FieldSet :
        LET a == Alias(fld) IN
        /\ a \in DOMAIN e \/ a \in DOMAIN DotEnvValues(f)
        /\ ~FromEnv(Annotation(fld),
                     IF a \in DOMAIN e THEN e[a] ELSE DotEnvValues(f)[a]).ok}

\* The step ran _initialize_settings: the reload of startup, the reload of
\* a create or update, the import after a restart.
Initializes ==
    \/ pc = "boot" /\ pc' = "idle"
    \/ Handles /\ "reload" \in Range(steps')

\* C20: every run of _initialize_settings returns a snapshot with every
\* field; and when the value supplied for at least one field fails
\* validation, every field of the snapshot returned is its declared
\* default, also the fields whose supplied values are valid.
C20_InitializeFallback ==
    [][Initializes
         => /\ DOMAIN settings' = FieldSet
            /\ BadFields(environ', file') # {} => settings' = Defaults
            /\ BadFields(environ', file') = {}
                  => \A f \in FieldSet :
                        Alias(f) \in DOMAIN environ'
                          => settings'[f]
                               = FromEnv(Annotation(f), environ'[Alias(f)]).v
                             \/ settings' = Defaults]_vars

\* C20: after a reload os.environ supplies a LOG_LEVEL that is no level and
\* a valid PORT that is not the default; the snapshot has the default port.
C20_Witness ==
    /\ pc = "done"
    /\ "reload" \in Range(steps)
    /\ BadFields(environ, file) = {"log_level"}
    /\ "PORT" \in DOMAIN environ
    /\ FromEnv("int", environ["PORT"]).ok
    /\ FromEnv("int", environ["PORT"]).v # Defaults.port
    /\ settings = Defaults

\* C21: validate_setting_value resolves the key to the field with that
\* alias and, when no alias matches, to the field named by the lowercase
\* form of the key; when no field matches, the raw value is returned
\* unchanged and the call never fails; when a field matches, the call
\* either returns a value of the field's declared type or fails.
C21_ValidateResolution ==
    pc = "returned" =>
      LET key == req.payload[1][1]
          value == req.payload[1][2]
          by_alias == {f \in FieldSet : Alias(f) = key}
          by_name == {f \in FieldSet : f = lower(key)}
          found == IF by_alias # {} THEN by_alias ELSE by_name
      IN /\ found = {} => resp = [ok |-> TRUE, v |-> value] /\ io = "none"
         /\ \A f \in found :
               /\ resp = Coerce(Annotation(f), value)
               /\ resp.ok => resp.v.t = Annotation(f)
               /\ resp.ok <=> io = "none"

\* C21: the key "port" is no alias, its lowercase form names the integer
\* field, and the value x is refused; "Port" with 80 is coerced to 80; an
\* unknown key keeps a list as it came.
C21_Witness ==
    /\ pc = "returned"
    /\ \/ /\ req.payload = <<<<"port", StrV(<<"x">>)>>>>
          /\ io = "ValueError"
       \/ /\ req.payload = <<<<"Port", StrV(<<"8", "0">>)>>>>
          /\ resp = [ok |-> TRUE, v |-> IntV(80)]

\* C22: a construction of the table store copies the rows of the legacy
\* table into the richer table exactly when the richer table has no row,
\* each copy with the legacy value, value_type "str", no description,
\* is_immutable false and both timestamps now; when the richer table has a
\* row, the construction copies nothing and leaves every row as it was.
\* The legacy tables are never written.
C22_MigrationGuard ==
    [][(pc = "store" /\ pc' = "stored" /\ req'.op = "DBStore")
         => LET was == db[DefaultDb]
                is == db'[DefaultDb]
                legacy == IF was.has_setting THEN was.setting
                          ELSE was.legacysetting
            IN /\ was.configentry = NoRows
                    => /\ DOMAIN is.configentry = DOMAIN legacy
                       /\ \A k \in DOMAIN legacy :
                             is.configentry[k]
                               = [value |-> legacy[k], value_type |-> "str",
                                  description |-> "None",
                                  is_immutable |-> FALSE,
                                  created_at |-> clock',
                                  updated_at |-> clock']
               /\ was.configentry # NoRows
                    => is.configentry = was.configentry
               /\ is.legacysetting = was.legacysetting
               /\ is.setting = was.setting
               /\ is.has_setting = was.has_setting]_vars

\* C22: the rows of an old table "setting" have just been copied into a
\* richer table that was empty.
C22_Witness ==
    /\ pc = "stored"
    /\ req.op = "DBStore"
    /\ db[DefaultDb].has_setting
    /\ db[DefaultDb].setting = LegacyTable
    /\ DOMAIN db[DefaultDb].configentry = DOMAIN LegacyTable
    /\ \A k \in DOMAIN LegacyTable :
          /\ db[DefaultDb].configentry[k].value = LegacyTable[k]
          /\ db[DefaultDb].configentry[k].created_at = clock

\* C23: when the server starts with the table store configured, that
\* store empty and a .env file present, every key of the .env file is in
\* the configured table store once startup has run; when the configured
\* store holds a row, startup imports nothing and changes no stored row.
C23_StartupImport ==
    [][(pc = "boot" /\ pc' = "idle" /\ get_store(environ).kind = "db")
         => LET loc == get_store(environ).loc
                was == DBStore_init(db[loc], clock').configentry
            IN /\ (was = NoRows /\ file.exists)
                    => \A k \in DOMAIN DotEnvValues(file) :
                          k \in DOMAIN db'[loc].configentry
               /\ was # NoRows
                    => /\ \A l \in DbLocs :
                             db'[l].configentry = DBStore_init(db[l], clock').configentry
                       /\ file' = file]_vars

\* C24: a key in the immutable roster of the snapshot a started server
\* holds is still in the roster of the snapshot after every create and
\* update request, with its reload and its restart if it has one.
C24_RosterStable ==
    [][Handles
         => \A k \in immutable_keys(settings) :
               k \in immutable_keys(settings')]_vars

\* C25: when a create or update answers 200, for every key of the request
\* that is the alias of a field, the string persisted (the string form of
\* the validated value) is accepted by the validation of that field when
\* the settings sources read it back, and the field of the snapshot after
\* the reload equals the validated value.
C25_PersistedRevalidates ==
    [][(Handles /\ resp'.status = 200)
         => \A i \in 1..Len(req'.payload) :
              \A f \in FieldSet :
                 Alias(f) = req'.payload[i][1]
                   => LET validated == validate_setting_value(
                                          req'.payload[i][1],
                                          req'.payload[i][2]).v
                      IN /\ FromEnv(Annotation(f), PyStr(validated)).ok
                         /\ settings'[f] = validated]_vars

\* C26: in every state of a started server and for every request key,
\* exactly one of create and update passes the existence pre-check (the
\* create is refused as a conflict or the update as missing, never both,
\* never neither); a create that answered 200 leaves each of its keys in
\* the store the next request is served from; and no step removes a key
\* from that store, so that from then on a create of the key is a conflict
\* and an update of it is not missing.
C26_Complementary ==
    [][/\ pc = "idle"
            => \A i \in 1..Len(RequestKeys) :
                 \A v \in RawValues(RequestKeys[i]) :
                   (put_setting(RequestKeys[i], v, FALSE, environ, World,
                                settings, clock + 1, "none").resp.kind
                      = "conflict")
                   # (post_setting(RequestKeys[i], v, FALSE, environ, World,
                                   settings, clock + 1, "none").resp.kind
                        = "missing")
       /\ (Handles /\ req'.op \in CreateOps /\ resp'.status = 200)
            => KeysAsked \subseteq DOMAIN StoreViewAfter
       /\ DOMAIN StoreView \subseteq DOMAIN StoreViewAfter]_vars

\* C27: whenever a worker's create answers 200, none of its keys had a
\* value in the store at the moment the worker wrote them; so of two
\* creates of one key handled at the same time at most one answers 200,
\* and the value it stored is not replaced by the other.
C27_CreateNeverOverwrites ==
    [][\A t \in Workers :
          (pc[t] = "checked" /\ pc'[t] = "done" /\ resp'[t].status = 200)
            => PayloadKeys(req[t].payload) \cap DOMAIN StoreView = {}]_vars

\* C28: when a writer of the file store runs alone (the file is, at its
\* write, as it was at its read), every key outside its batch has after
\* the write the value read_all returned for it before, every key of the
\* batch has the string written, and no key is lost.
C28_SingleWriterKeeps ==
    [][\A t \in Workers :
          (pc[t] = "read" /\ pc'[t] = "written"
             /\ steps[t] = EnvStore_current(file, req[t].payload))
            => LET was == DictMap(EnvStore_read_all(file))
                   is == DictMap(EnvStore_read_all(file'))
                   batch == PayloadKeys(req[t].payload)
               IN /\ DOMAIN is = DOMAIN was \cup batch
                  /\ \A k \in DOMAIN was \ batch : is[k] = was[k]]_vars

\* Two writers have finished and the file lacks the key one of them wrote:
\* its batch was lost to the other's rewrite.
LostUpdate ==
    /\ \A t \in Workers : pc[t] = "written"
    /\ \E t \in Workers :
          PayloadKeys(req[t].payload) \cap DOMAIN DictMap(EnvStore_read_all(file)) = {}

\* C29: a write_many of the table store, whether it returns or raises,
\* removes no row, leaves every row of a key outside the batch as it was,
\* and leaves in every row that existed its value_type, description,
\* is_immutable and created_at; a row it inserts is not marked immutable;
\* the legacy tables, the other databases and the .env file are untouched.
C29_WriteManyFrame ==
    [][(pc = "store" /\ pc' \in {"stored", "raised"}
          /\ req'.op = "DBStore.write_many")
         => /\ \A k \in DOMAIN RowsBefore :
                  /\ k \in DOMAIN RowsAfter
                  /\ k \notin KeysAsked => RowsAfter[k] = RowsBefore[k]
                  /\ RowsAfter[k].value_type = RowsBefore[k].value_type
                  /\ RowsAfter[k].description = RowsBefore[k].description
                  /\ RowsAfter[k].is_immutable = RowsBefore[k].is_immutable
                  /\ RowsAfter[k].created_at = RowsBefore[k].created_at
            /\ \A k \in DOMAIN RowsAfter \ DOMAIN RowsBefore :
                  k \in KeysAsked /\ ~RowsAfter[k].is_immutable
            /\ db'[DefaultDb].legacysetting = db[DefaultDb].legacysetting
            /\ db'[DefaultDb].setting = db[DefaultDb].setting
            /\ db'[CustomDb] = db[CustomDb]
            /\ file' = file]_vars

\* C29: a batch of TEST_NEW1 alone was written to a table that held it
\* beside a row marked immutable: its row has a new value and updated_at
\* and its old created_at, the other rows are as they were.
C29_Witness ==
    /\ pc = "stored"
    /\ req.op = "DBStore.write_many"
    /\ PayloadKeys(req.payload) = {"TEST_NEW1"}
    /\ db[DefaultDb].configentry["TEST_NEW1"].value = PyStr(req.payload[1][2])
    /\ db[DefaultDb].configentry["TEST_NEW1"].updated_at = clock
    /\ db[DefaultDb].configentry["TEST_NEW1"].created_at = 0
    /\ db[DefaultDb].configentry["PORT"] = PlainTable["PORT"]
    /\ db[DefaultDb].configentry["IMMUTABLE_KEYS"] = PlainTable["IMMUTABLE_KEYS"]

\* C30: a create or update request gets past the dependency of its
\* endpoint only with a token whose signature verifies under the admin
\* secret; a token that verifies under the user secret only is refused
\* there and changes nothing, whatever role its payload claims.
C30_AdminNeedsAdminSecret ==
    [][(Handles /\ req'.op \notin ReadOps)
         => /\ resp'.kind # "auth"
                  => /\ req'.token.kind = "jwt"
                     /\ req'.token.secret = settings.admin_jwt_secret.s
            /\ (/\ req'.token.kind = "jwt"
                /\ req'.token.secret = settings.user_jwt_secret.s
                /\ req'.token.secret # settings.admin_jwt_secret.s)
                  => /\ resp'.kind = "auth"
                     /\ Untouched]_vars

\* C31: write_many with the same batch applied twice leaves the key/value
\* contents, as read_all returns them, that applying it once leaves: in
\* the file store after the write of a writer that ran alone, and in the
\* table store for every batch on every database reached; and after a
\* create that answered 200, whose pipeline wrote the validated batch
\* twice, the store holds what a single write_many of that batch on the
\* store as it was before would have left.
C31_RepeatedWriteIdempotent ==
    [][/\ \A t \in Workers :
            (pc[t] = "read" /\ pc'[t] = "written"
               /\ steps[t] = EnvStore_current(file, req[t].payload))
              => EnvStore_read_all(EnvStore_write_many(file', req[t].payload))
                   = EnvStore_read_all(file')
       /\ \A l \in DbLocs, batch \in RacePayloads :
            LET once == DBStore_write_many(DBStore_init(db[l], clock + 1),
                                           batch, clock + 1)
            IN DBStore_read_all(DBStore_write_many(once, batch, clock + 1))
                 = DBStore_read_all(once)
       /\ \A t \in Workers :
            (pc[t] = "checked" /\ pc'[t] = "done" /\ resp'[t].status = 200)
              => LET st == get_store(environ)
                     batch == validate_and_update_settings(req[t].payload).validated
                     single == write_many(st, Construct(st, World, clock + 1),
                                          batch, clock + 1)
                 IN View(environ, file', db', clock')
                      = read_all(st, Construct(st, single, clock + 1))]_vars

====
